---- MODULE Spec2Model ----
(***************************************************************************)
(* lrcsync: for every audio file found by the directory walker, read its   *)
(* tags, ask lrclib for the lyrics with an exact get, optionally fall back *)
(* to a search ranked by duration, and write the .lrc file next to it.     *)
(* The model follows src/src/main.rs; every await point of main is a step. *)
(***************************************************************************)
EXTENDS Integers, Sequences, FiniteSets, TLC

VARIABLES
    config,     \* CliConfig: force, ignore, search, tolerance
    idx,        \* number of walker items main is done with
    pc,         \* where main is: loop, get, search, write, write_all, next, done,
                \* panicked
    meta,       \* the tag data read for the current file
    lrc_query,  \* the LrclibQuery of the current file
    requests,   \* the requests sent for the current file, in order
    replies,    \* what came back for them and what the client made of it
    lrc_item,   \* the item the exact get returned, if any
    lrc_items,  \* the list the search returned, if any
    canidates,  \* the list main indexes with [0]
    selected,   \* canidates[0], once main has read it
    to_write,   \* the texts handed to write_lrc_for_file for the current file
    lrcFile,    \* content of the .lrc file next to the current file, if any
    hadLrc,     \* content of that file when the current file was reached
    handle,     \* the tokio File that write_lrc_for_file has open, if any
    queued,     \* writes of dropped Files that the blocking pool still holds
    late,       \* a write of an earlier item reached the file of the current one
    outcome     \* how main ended with the current file ("" while at work)

vars == <<config, idx, pc, meta, lrc_query, requests, replies, lrc_item, lrc_items,
          canidates, selected, to_write, lrcFile, hadLrc, handle, queued, late,
          outcome>>

\* ---------------------------------------------------------------- bounds
MaxFiles == 2
MaxCands == 2

\* ------------------------------------------------------- Option<T> values
None == <<>>
Some(x) == <<x>>
IsSome(o) == Len(o) = 1
Unwrap(o) == o[1]

\* ------------------------------------------------------------ f32 values
\* A 32-bit float is finite (small integers are exact), an infinity or NaN.
Fin(n) == [k |-> "fin", v |-> n]
PInf == [k |-> "inf", v |-> 1]
NaN == [k |-> "nan", v |-> 0]

\* a - b on f32
FSub(a, b) ==
    IF a.k = "nan" \/ b.k = "nan" THEN NaN
    ELSE IF a.k = "fin" /\ b.k = "fin" THEN Fin(a.v - b.v)
    ELSE IF a.k = "inf" /\ b.k = "inf" THEN (IF a.v = b.v THEN NaN ELSE a)
    ELSE IF a.k = "inf" THEN a
    ELSE [k |-> "inf", v |-> 0 - b.v]   \* finite minus an infinity

\* f32::abs
FAbs(a) ==
    IF a.k = "nan" THEN NaN
    ELSE IF a.k = "inf" THEN PInf
    ELSE Fin(IF a.v < 0 THEN 0 - a.v ELSE a.v)

\* f32::partial_cmp: None as soon as one side is NaN
partial_cmp(a, b) ==
    IF a.k = "nan" \/ b.k = "nan" THEN None
    ELSE IF a = b THEN Some("Equal")
    ELSE IF a.k = "inf" THEN Some(IF a.v < 0 THEN "Less" ELSE "Greater")
    ELSE IF b.k = "inf" THEN Some(IF b.v < 0 THEN "Greater" ELSE "Less")
    ELSE Some(IF a.v < b.v THEN "Less" ELSE "Greater")

\* a < b and a > b on f32 (false when unordered)
FLt(a, b) == partial_cmp(a, b) = Some("Less")
FGt(a, b) == partial_cmp(a, b) = Some("Greater")

\* f32::to_string
FToString(a) ==
    IF a.k = "nan" THEN "NaN"
    ELSE IF a.k = "inf" THEN (IF a.v < 0 THEN "-inf" ELSE "inf")
    ELSE ToString(a.v)

\* --------------------------------------------------------- texts as bytes
\* A text is kept as its bytes, in runs: a literal piece, or one byte
\* repeated n times (" " to make a text long, "NUL" for a hole in a file).
\* Literals hold none of these bytes and runs are merged, so equal byte
\* strings are equal values. The texts are ASCII: as_bytes keeps lengths.
Lit(str) == IF str = "" THEN <<>> ELSE <<[k |-> "lit", s |-> str, n |-> Len(str)]>>
Fill(byte, n) == IF n = 0 THEN <<>> ELSE <<[k |-> "fill", s |-> byte, n |-> n]>>

RECURSIVE BLen(_)
BLen(t) == IF t = <<>> THEN 0 ELSE t[1].n + BLen(Tail(t))

Cat(a, b) ==
    IF a = <<>> THEN b
    ELSE IF b = <<>> THEN a
    ELSE LET x == a[Len(a)]
             y == b[1]
             front == SubSeq(a, 1, Len(a) - 1)
         IN IF x.k = "lit" /\ y.k = "lit"
            THEN front \o Lit(x.s \o y.s) \o Tail(b)
            ELSE IF x.k = "fill" /\ y.k = "fill" /\ x.s = y.s
            THEN front \o Fill(x.s, x.n + y.n) \o Tail(b)
            ELSE a \o b

\* the first n bytes of t, and t without them
RECURSIVE Take(_, _)
Take(t, n) ==
    IF n <= 0 \/ t = <<>> THEN <<>>
    ELSE IF t[1].n <= n THEN <<t[1]>> \o Take(Tail(t), n - t[1].n)
    ELSE IF t[1].k = "lit" THEN Lit(SubSeq(t[1].s, 1, n))
    ELSE Fill(t[1].s, n)
RECURSIVE Drop(_, _)
Drop(t, n) ==
    IF n <= 0 \/ t = <<>> THEN t
    ELSE IF t[1].n <= n THEN Drop(Tail(t), n - t[1].n)
    ELSE IF t[1].k = "lit" THEN Lit(SubSeq(t[1].s, n + 1, t[1].n)) \o Tail(t)
    ELSE Fill(t[1].s, t[1].n - n) \o Tail(t)
Slice(t, from, n) == Take(Drop(t, from), n)

\* write(2) of data at position at of a file: bytes are replaced, the file
\* grows, and a position beyond its end leaves a hole of zero bytes
WriteAt(content, at, data) ==
    IF data = <<>> THEN content
    ELSE LET base == IF BLen(content) < at
                     THEN Cat(content, Fill("NUL", at - BLen(content)))
                     ELSE content
         IN Cat(Cat(Take(base, at), data), Drop(base, at + BLen(data)))

\* ------------------------------------------------------------ input sets
IgnoreTokens == {"duration", "album", "album_name", "artist", "artist_name", "title"}
\* the --ignore lists of the runs: no token, each token alone, and two lists
\* of two tokens
IgnoreSets ==
    {{}} \cup {{t} : t \in IgnoreTokens}
    \cup {{"duration", "artist"}, {"album", "artist_name"}}
Tolerances == {Fin(0), Fin(2)}

CliConfig == [force : BOOLEAN, ignore : IgnoreSets, search : BOOLEAN,
              tolerance : Tolerances]

\* Tags as the reader returns them: a complete tag, a tag with nothing but a
\* duration, the complete tag without duration and the complete tag whose
\* duration overflowed to infinity.
FullTag == [title |-> Some("Song"), artists |-> Some(<<"Band", "Duo">>),
            album |-> Some("Rec"), duration |-> Some(Fin(2))]
BareTag == [title |-> None, artists |-> None, album |-> None,
            duration |-> Some(Fin(1))]
TagData ==
    {FullTag,
     BareTag,
     [FullTag EXCEPT !.duration = None],
     [FullTag EXCEPT !.duration = Some(PInf)]}
NoTag == [title |-> None, artists |-> None, album |-> None, duration |-> None]

\* two records of lrclib do not have the same lyrics, or they do
SyncedTexts == {Lit("[00:01.00]hi"), Lit("[00:02.00]yo!")}
\* a text of 3 MiB, more than tokio's File takes in one write
LongTexts == {Cat(Lit("[00:01.00]hi"), Fill(" ", 3 * 1024 * 1024 - 12))}
ItemShapes == [duration : {Fin(0), Fin(1), PInf},
               syncedLyrics : {None} \cup {Some(t) : t \in SyncedTexts}]

\* LrclibItem: the fields main inspects, and the identifier of the record
LrclibItem(i, shape) ==
    [id |-> i, duration |-> shape.duration, syncedLyrics |-> shape.syncedLyrics]
NoItem == [id |-> 0, duration |-> Fin(0), syncedLyrics |-> None]

ItemLists ==
    UNION {{[i \in 1..n |-> LrclibItem(i, f[i])] : f \in [1..n -> ItemShapes]}
           : n \in 0..MaxCands}

\* HTTP exchange as seen by the client: the transport may fail; otherwise a
\* status and a body that parses into the expected shape or does not.
HttpStatuses == {200, 404, 500}
GetResponses ==
    {[transport |-> FALSE, status |-> 0, parses |-> FALSE, item |-> NoItem]}
    \cup {[transport |-> TRUE, status |-> s, parses |-> FALSE, item |-> NoItem]
          : s \in HttpStatuses}
    \cup {[transport |-> TRUE, status |-> 200, parses |-> TRUE,
           item |-> LrclibItem(1, sh)] : sh \in ItemShapes}
    \cup {[transport |-> TRUE, status |-> 200, parses |-> TRUE,
           item |-> LrclibItem(1, [duration |-> Fin(0), syncedLyrics |-> Some(t)])]
          : t \in LongTexts}
SearchResponses ==
    {[transport |-> FALSE, status |-> 0, parses |-> FALSE, items |-> <<>>]}
    \cup {[transport |-> TRUE, status |-> s, parses |-> FALSE, items |-> <<>>]
          : s \in HttpStatuses}
    \cup {[transport |-> TRUE, status |-> 200, parses |-> TRUE, items |-> l]
          : l \in ItemLists}

\* ------------------------------------------------------------ LrclibQuery
NoQuery == [track_name |-> "", artist_name |-> "", album_name |-> None,
            duration |-> None]

\* artists.join(", ")
RECURSIVE join(_)
join(artists) ==
    IF Len(artists) = 0 THEN ""
    ELSE IF Len(artists) = 1 THEN artists[1]
    ELSE artists[1] \o ", " \o join(Tail(artists))

\* to_search_query that sends the duration as the exact get does
to_search_query_with_duration(q) ==
    <<<<"track_name", q.track_name>>>>
    \o (IF Len(q.artist_name) > 0 THEN <<<<"artist_name", q.artist_name>>>> ELSE <<>>)
    \o (IF IsSome(q.album_name) THEN <<<<"album_name", Unwrap(q.album_name)>>>> ELSE <<>>)
    \o (IF IsSome(q.duration) THEN <<<<"duration", FToString(Unwrap(q.duration))>>>> ELSE <<>>)

to_search_query(q) ==
    <<<<"track_name", q.track_name>>>>
    \o (IF Len(q.artist_name) > 0 THEN <<<<"artist_name", q.artist_name>>>> ELSE <<>>)
    \o (IF IsSome(q.album_name) THEN <<<<"album_name", Unwrap(q.album_name)>>>> ELSE <<>>)

to_get_query(q) ==
    to_search_query(q)
    \o (IF IsSome(q.duration) THEN <<<<"duration", FToString(Unwrap(q.duration))>>>> ELSE <<>>)

remove_duration(q) == [q EXCEPT !.duration = None]
remove_album_name(q) == [q EXCEPT !.album_name = None]


\* ----------------------------------------------------------- LrcLibClient
IsSuccess(status) == status >= 200 /\ status < 300

\* what the client returns: Ok(Some(..)), Ok(None) or Err with its cause
\* (the transport, the status of the response, or the body that did not parse)
Found(payload) == [tag |-> "Some", payload |-> payload, err |-> "", status |-> 0]
NotFound(empty) == [tag |-> "None", payload |-> empty, err |-> "", status |-> 0]
Failed(empty, cause, status) ==
    [tag |-> "Err", payload |-> empty, err |-> cause, status |-> status]

\* LrcLibClient::get, after the response arrived
get(resp) ==
    IF ~resp.transport THEN Failed(NoItem, "transport", 0)
    ELSE IF IsSuccess(resp.status)
         THEN IF resp.parses THEN Found(resp.item)
              ELSE Failed(NoItem, "parse", 0)
    ELSE IF resp.status = 404 THEN NotFound(NoItem)
    ELSE Failed(NoItem, "status", resp.status)

\* search that takes every status but a success for an error
search_404_is_error(resp) ==
    IF ~resp.transport THEN Failed(<<>>, "transport", 0)
    ELSE IF IsSuccess(resp.status)
         THEN IF resp.parses THEN Found(resp.items)
              ELSE Failed(<<>>, "parse", 0)
    ELSE Failed(<<>>, "status", resp.status)

\* LrcLibClient::search, after the response arrived
search(resp) ==
    IF ~resp.transport THEN Failed(<<>>, "transport", 0)
    ELSE IF IsSuccess(resp.status)
         THEN IF resp.parses THEN Found(resp.items)
              ELSE Failed(<<>>, "parse", 0)
    ELSE IF resp.status = 404 THEN NotFound(<<>>)
    ELSE Failed(<<>>, "status", resp.status)

\* the exchange as it is kept in replies
Reply(endpoint, resp, r) ==
    [endpoint |-> endpoint, transport |-> resp.transport, status |-> resp.status,
     parses |-> resp.parses, result |-> r.tag, err |-> r.err, err_status |-> r.status]

\* ------------------------------------------------------ main: the query
\* build_query with the "album" spelling of the token forgotten
build_query_album_name_only(tag, ignore) ==
    LET q0 == [track_name |-> IF IsSome(tag.title) THEN Unwrap(tag.title) ELSE "",
               artist_name |-> IF IsSome(tag.artists) THEN join(Unwrap(tag.artists)) ELSE "",
               album_name |-> tag.album,
               duration |-> tag.duration]
        q1 == IF "duration" \in ignore THEN remove_duration(q0) ELSE q0
    IN  IF "album_name" \in ignore THEN remove_album_name(q1) ELSE q1

\* build_query with the artist cleared together with the other ignored fields
build_query_hides_artist(tag, ignore) ==
    LET q0 == [track_name |-> IF IsSome(tag.title) THEN Unwrap(tag.title) ELSE "",
               artist_name |-> IF "artist_name" \in ignore \/ "artist" \in ignore THEN ""
                               ELSE IF IsSome(tag.artists) THEN join(Unwrap(tag.artists))
                               ELSE "",
               album_name |-> tag.album,
               duration |-> tag.duration]
        q1 == IF "duration" \in ignore THEN remove_duration(q0) ELSE q0
    IN  IF "album_name" \in ignore \/ "album" \in ignore
        THEN remove_album_name(q1) ELSE q1

\* the LrclibQuery built from the tag, with the ignore list applied
build_query(tag, ignore) ==
    LET q0 == [track_name |-> IF IsSome(tag.title) THEN Unwrap(tag.title) ELSE "",
               artist_name |-> IF IsSome(tag.artists) THEN join(Unwrap(tag.artists)) ELSE "",
               album_name |-> tag.album,
               duration |-> tag.duration]
        q1 == IF "duration" \in ignore THEN remove_duration(q0) ELSE q0
    IN  IF "album_name" \in ignore \/ "album" \in ignore
        THEN remove_album_name(q1) ELSE q1

\* "hide artist hack" before the search call
hide_artist(q, ignore) ==
    IF "artist_name" \in ignore \/ "artist" \in ignore
    THEN [q EXCEPT !.artist_name = ""] ELSE q

\* ------------------------------------------------- main: the candidates
\* |item.duration - duration|
abs_delta(item, duration) == FAbs(FSub(item.duration, duration))

\* the comparator of sort_by unwraps partial_cmp: it panics when it is given
\* a NaN delta, and every element of a list of two or more is compared
sort_panics(items, duration) ==
    /\ Len(items) >= 2
    /\ \E i \in 1..Len(items) : abs_delta(items[i], duration).k = "nan"

\* insert_by that puts x before the elements that are as far as x
insert_by_before_equal(sorted, x, duration) ==
    LET n == Cardinality({i \in 1..Len(sorted) :
                 FLt(abs_delta(sorted[i], duration), abs_delta(x, duration))})
    IN  SubSeq(sorted, 1, n) \o <<x>> \o SubSeq(sorted, n + 1, Len(sorted))

\* insertion of x after every element that is not farther than x
insert_by(sorted, x, duration) ==
    LET n == Cardinality({i \in 1..Len(sorted) :
                 ~FLt(abs_delta(x, duration), abs_delta(sorted[i], duration))})
    IN  SubSeq(sorted, 1, n) \o <<x>> \o SubSeq(sorted, n + 1, Len(sorted))

\* sort_by that leaves the list in the order of the response
sort_by_unsorted(items, duration) == items

\* slice::sort_by (stable) with the absolute delta as the key
RECURSIVE sort_by(_, _)
sort_by(items, duration) ==
    IF Len(items) = 0 THEN <<>>
    ELSE insert_by(sort_by(SubSeq(items, 1, Len(items) - 1), duration),
                   items[Len(items)], duration)

\* the tolerance filter with <= in the place of <
filter_tolerance_inclusive(items, duration, tolerance) ==
    IF FGt(tolerance, Fin(0))
    THEN SelectSeq(items, LAMBDA item : ~FGt(abs_delta(item, duration), tolerance)
                                        /\ abs_delta(item, duration).k # "nan")
    ELSE items

\* the tolerance filter; tolerance <= 0 keeps the list
filter_tolerance(items, duration, tolerance) ==
    IF FGt(tolerance, Fin(0))
    THEN SelectSeq(items, LAMBDA item : FLt(abs_delta(item, duration), tolerance))
    ELSE items

\* rank_candidates that ranks against unwrap_or(-1.0) when there is no duration
rank_candidates_always(items, duration, tolerance) ==
    LET d == IF IsSome(duration) THEN Unwrap(duration) ELSE Fin(0 - 1)
    IN  filter_tolerance(sort_by(items, d), d, tolerance)

\* the list main indexes with [0]: ranked and filtered only when the query
\* has a duration
rank_candidates(items, duration, tolerance) ==
    IF IsSome(duration)
    THEN filter_tolerance(sort_by(items, Unwrap(duration)), Unwrap(duration), tolerance)
    ELSE items


\* ------------------------------------------------- main: the branches
\* after_get that takes an error of the exact get for a miss
after_get_error_is_miss(r, search_enabled) ==
    IF r.tag = "Some"
    THEN (IF IsSome(r.payload.syncedLyrics) THEN "write" ELSE "nothing")
    ELSE IF search_enabled THEN "search"
    ELSE IF r.tag = "None" THEN "notfound" ELSE "error"

\* after_get that falls back to the search without looking at --search
after_get_always_searches(r, search_enabled) ==
    IF r.tag = "Some"
    THEN (IF IsSome(r.payload.syncedLyrics) THEN "write" ELSE "nothing")
    ELSE IF r.tag = "None" THEN "search"
    ELSE "error"

\* after_get that searches when the item found has no synced lyrics
after_get_searches_unsynced(r, search_enabled) ==
    IF r.tag = "Some"
    THEN (IF IsSome(r.payload.syncedLyrics) THEN "write"
          ELSE IF search_enabled THEN "search" ELSE "nothing")
    ELSE IF r.tag = "None" THEN (IF search_enabled THEN "search" ELSE "notfound")
    ELSE "error"

\* the arm main takes on the result of client.get
after_get(r, search_enabled) ==
    IF r.tag = "Some"
    THEN (IF IsSome(r.payload.syncedLyrics) THEN "write" ELSE "nothing")
    ELSE IF r.tag = "None" THEN (IF search_enabled THEN "search" ELSE "notfound")
    ELSE "error"

\* after_search without the test for an empty list
after_search_no_len_check(r) ==
    IF r.tag = "Err" THEN "error"
    ELSE IF r.tag = "None" THEN "notfound"
    ELSE "select"

\* the arm main takes on the result of client.search
after_search(r) ==
    IF r.tag = "Err" THEN "error"
    ELSE IF r.tag = "None" THEN "notfound"
    ELSE IF Len(r.payload) = 0 THEN "notfound"
    ELSE "select"

\* lyrics_source that takes the last candidate
lyrics_source_last(c) == c[Len(c)]

\* the candidate whose syncedLyrics main hands to write_lrc_for_file
lyrics_source(c) == c[1]

\* has_existing_lrc && !config.force
skips_existing(file, force) == IsSome(file) /\ ~force

\* ------------------------------------------------------ walker and files
\* mime_guess::from_path on the extension of the path
mime_guess(ext) ==
    IF ext = "mp3" THEN {"audio"} ELSE IF ext = "txt" THEN {"text"} ELSE {}
is_audio(ext) == \E guess \in mime_guess(ext) : guess = "audio"

Extensions == {"mp3", "txt", ""}
ExistingLrc == {None, Some(Lit("[00:00.00]old"))}
CreateResults == {"ok", "failed"}

\* tokio's File takes at most this many bytes into its buffer per write
MAX_BUF_SIZE == 2 * 1024 * 1024
Min(a, b) == IF a < b THEN a ELSE b

\* how many bytes of a chunk a write of the blocking pool gets into the
\* file: all of them, or an error after none or a part of them (disk full,
\* file-size limit)
WrittenBytes(data) == {0, BLen(data) \div 2, BLen(data)}

\* Two items of the walker may have one .lrc path (a.flac and a.mp3),
\* whatever the options are. The model follows one .lrc path at a time, that
\* of the current item: an item finds a file of its own, or it has the path
\* of the item before and finds the file as that item left it.
SharesPath == idx > 0
WalkerFinds ==
    {[same |-> FALSE, lrc |-> f] : f \in ExistingLrc}
    \cup (IF SharesPath THEN {[same |-> TRUE, lrc |-> lrcFile]} ELSE {})

\* ------------------------------------------------------------------ Init
Init ==
    /\ config \in CliConfig
    /\ idx = 0
    /\ pc = "loop"
    /\ meta = NoTag
    /\ lrc_query = NoQuery
    /\ requests = <<>>
    /\ replies = <<>>
    /\ lrc_item = None
    /\ lrc_items = None
    /\ canidates = <<>>
    /\ selected = None
    /\ to_write = <<>>
    /\ lrcFile = None
    /\ hadLrc = None
    /\ handle = None
    /\ queued = <<>>
    /\ late = FALSE
    /\ outcome = ""

\* the walker yields the next of its MaxFiles items; found.lrc is the .lrc
\* file next to it, if any. The writes still queued stay with the model when
\* the item has the .lrc path of the item before.
NextItem(found) ==
    /\ pc = "loop"
    /\ idx < MaxFiles
    /\ lrcFile' = found.lrc
    /\ hadLrc' = found.lrc
    /\ queued' = IF found.same THEN queued ELSE <<>>
    /\ late' = FALSE
    /\ UNCHANGED <<config, idx, replies, lrc_item, lrc_items, canidates,
                   selected, to_write, handle>>

\* main is done with the current item: `continue`, or the end of the loop body
Continue(o) ==
    /\ outcome' = o
    /\ pc' = "next"
    /\ UNCHANGED idx

\* a panic unwinds main: the process ends
Panic(o) ==
    /\ outcome' = o
    /\ pc' = "panicked"
    /\ UNCHANGED idx

\* Err(e) from the walker
WalkError ==
    /\ NextItem([same |-> FALSE, lrc |-> None])
    /\ meta' = NoTag /\ lrc_query' = NoQuery /\ requests' = <<>>
    /\ Continue("WalkError")

\* an entry that is not an audio file
NotAudio ==
    /\ pc = "loop"
    /\ \E ext \in Extensions, found \in WalkerFinds :
        /\ ~is_audio(ext)
        /\ NextItem(found)
        /\ meta' = NoTag /\ lrc_query' = NoQuery /\ requests' = <<>>
        /\ Continue("NotAudio")

\* an audio file that has a .lrc file already, without --force
SkipExisting ==
    /\ pc = "loop"
    /\ \E ext \in Extensions, found \in WalkerFinds :
        /\ is_audio(ext)
        /\ skips_existing(found.lrc, config.force)
        /\ NextItem(found)
        /\ meta' = NoTag /\ lrc_query' = NoQuery /\ requests' = <<>>
        /\ Continue("Skipped")

\* the tag of the audio file cannot be read
TagReadError ==
    /\ pc = "loop"
    /\ \E ext \in Extensions, found \in WalkerFinds :
        /\ is_audio(ext)
        /\ ~skips_existing(found.lrc, config.force)
        /\ NextItem(found)
        /\ meta' = NoTag /\ lrc_query' = NoQuery /\ requests' = <<>>
        /\ Continue("TagError")

\* the tag is read, the query is built and the exact get is sent
SendGet ==
    /\ pc = "loop"
    /\ \E ext \in Extensions, found \in WalkerFinds, tag \in TagData :
        /\ is_audio(ext)
        /\ ~skips_existing(found.lrc, config.force)
        /\ NextItem(found)
        /\ meta' = tag
        /\ lrc_query' = build_query(tag, config.ignore)
        /\ requests' = <<[endpoint |-> "get", query |-> lrc_query',
                          params |-> to_get_query(lrc_query')]>>
        /\ outcome' = ""
        /\ pc' = "get"

\* client.get(&lrc_query).await returns
OnGetResponse ==
    /\ pc = "get"
    /\ \E resp \in GetResponses :
        LET r == get(resp)
            arm == after_get(r, config.search)
        IN
        /\ replies' = Append(replies, Reply("get", resp, r))
        /\ lrc_item' = IF r.tag = "Some" THEN Some(r.payload) ELSE lrc_item
        /\ UNCHANGED <<config, meta, lrc_items, canidates, selected,
                       lrcFile, hadLrc, handle, queued, late>>
        /\ IF arm = "write"
           THEN /\ to_write' = Append(to_write, Unwrap(r.payload.syncedLyrics))
                /\ pc' = "write"
                /\ UNCHANGED <<lrc_query, requests, idx, outcome>>
           ELSE IF arm = "search"
           THEN /\ lrc_query' = hide_artist(lrc_query, config.ignore)
                /\ requests' = Append(requests,
                       [endpoint |-> "search", query |-> lrc_query',
                        params |-> to_search_query(lrc_query')])
                /\ pc' = "search"
                /\ UNCHANGED <<to_write, idx, outcome>>
           ELSE /\ UNCHANGED <<to_write, lrc_query, requests>>
                /\ Continue(IF arm = "nothing" THEN "NothingToWrite"
                            ELSE IF arm = "notfound" THEN "NotFound"
                            ELSE "GetError")

\* client.search(&lrc_query).await returns
OnSearchResponse ==
    /\ pc = "search"
    /\ \E resp \in SearchResponses :
        LET r == search(resp)
            arm == after_search(r)
            c == rank_candidates(r.payload, lrc_query.duration, config.tolerance)
        IN
        /\ replies' = Append(replies, Reply("search", resp, r))
        /\ lrc_items' = IF r.tag = "Some" THEN Some(r.payload) ELSE lrc_items
        /\ UNCHANGED <<config, meta, lrc_query, requests, lrc_item,
                       lrcFile, hadLrc, handle, queued, late>>
        /\ IF arm = "error"
           THEN /\ UNCHANGED <<canidates, selected, to_write>>
                /\ Continue("SearchError")
           ELSE IF arm = "notfound"
           THEN /\ UNCHANGED <<canidates, selected, to_write>>
                /\ Continue("NotFound")
           ELSE IF IsSome(lrc_query.duration)
                   /\ sort_panics(r.payload, Unwrap(lrc_query.duration))
           THEN \* partial_cmp(..).unwrap() on None
                /\ canidates' = r.payload
                /\ UNCHANGED <<selected, to_write>>
                /\ Panic("PanicSort")
           ELSE /\ canidates' = c
                /\ IF Len(c) = 0
                   THEN \* canidates[0]: index out of bounds
                        /\ UNCHANGED <<selected, to_write>>
                        /\ Panic("PanicIndex")
                   ELSE /\ selected' = Some(c[1])
                        /\ IF IsSome(lyrics_source(c).syncedLyrics)
                           THEN /\ to_write' = Append(to_write,
                                       Unwrap(lyrics_source(c).syncedLyrics))
                                /\ pc' = "write"
                                /\ UNCHANGED <<idx, outcome>>
                           ELSE \* syncedLyrics.as_ref().unwrap() on None
                                /\ UNCHANGED to_write
                                /\ Panic("PanicUnwrap")

\* write_lrc_for_file: File::create(lrc_path).await returns; the file is
\* there and empty, or the call failed and nothing was touched
OnCreateResult ==
    /\ pc = "write"
    /\ \E io \in CreateResults :
        /\ UNCHANGED <<config, meta, lrc_query, requests, replies, lrc_item,
                       lrc_items, canidates, selected, to_write, hadLrc, queued,
                       late>>
        /\ IF io = "ok"
           THEN /\ lrcFile' = Some(<<>>)
                /\ handle' = Some([pos |-> 0, op |-> None, failed |-> FALSE])
                /\ pc' = "write_all"
                /\ UNCHANGED <<idx, outcome>>
           ELSE /\ UNCHANGED <<lrcFile, handle>>
                /\ Continue("WriteError")

\* write_lrc_for_file: file.write_all(..).await is polled while the File has
\* no write in flight. The error of the chunk before ends it with Err; else
\* the next chunk, at most MAX_BUF_SIZE bytes, is copied into the buffer of
\* the File and given to the blocking pool. After the last chunk write_all
\* is Ok, whatever becomes of that write: the File is dropped without a
\* flush and the write goes on without it. Before the last chunk main stays
\* suspended until the blocking pool has written the chunk.
PollWriteAll ==
    /\ pc = "write_all"
    /\ ~IsSome(Unwrap(handle).op)
    /\ LET f == Unwrap(handle)
           text == to_write[Len(to_write)]
           n == Min(MAX_BUF_SIZE, BLen(text) - f.pos)
           w == [of |-> idx, at |-> f.pos, data |-> Slice(text, f.pos, n)]
       IN IF f.failed
          THEN /\ handle' = None
               /\ UNCHANGED queued
               /\ Continue("WriteError")
          ELSE IF n = 0
          THEN /\ handle' = None
               /\ UNCHANGED queued
               /\ Continue("Written")
          ELSE IF f.pos + n = BLen(text)
          THEN /\ handle' = None
               /\ queued' = Append(queued, w)
               /\ Continue("Written")
          ELSE /\ handle' = Some([pos |-> f.pos + n, op |-> Some(w),
                                  failed |-> FALSE])
               /\ UNCHANGED <<queued, idx, pc, outcome>>
    /\ UNCHANGED <<config, meta, lrc_query, requests, replies, lrc_item,
                   lrc_items, canidates, selected, to_write, lrcFile, hadLrc,
                   late>>

\* the blocking pool runs the write of the File that write_all waits for
BlockingWrite ==
    /\ IsSome(handle)
    /\ IsSome(Unwrap(handle).op)
    /\ LET w == Unwrap(Unwrap(handle).op) IN
       \E n \in WrittenBytes(w.data) :
           /\ lrcFile' = Some(WriteAt(Unwrap(lrcFile), w.at, Take(w.data, n)))
           /\ handle' = Some([Unwrap(handle) EXCEPT !.op = None,
                                                    !.failed = n < BLen(w.data)])
    /\ UNCHANGED <<config, idx, pc, meta, lrc_query, requests, replies,
                   lrc_item, lrc_items, canidates, selected, to_write, hadLrc,
                   queued, late, outcome>>

\* the blocking pool runs a write of a File that was dropped; its result is
\* never looked at
LateWrite ==
    /\ queued # <<>>
    /\ IsSome(lrcFile)
    /\ \E i \in 1..Len(queued) :
           LET w == queued[i] IN
           /\ \E n \in WrittenBytes(w.data) :
                  lrcFile' = Some(WriteAt(Unwrap(lrcFile), w.at, Take(w.data, n)))
           /\ queued' = SubSeq(queued, 1, i - 1) \o SubSeq(queued, i + 1, Len(queued))
           /\ late' = (late \/ w.of # idx)
    /\ UNCHANGED <<config, idx, pc, meta, lrc_query, requests, replies,
                   lrc_item, lrc_items, canidates, selected, to_write, hadLrc,
                   handle, outcome>>

\* the loop body is left: its locals are dropped and the walker is asked for
\* the next item. The .lrc file and the writes still queued for it stay as
\* they are.
EndIteration ==
    /\ pc = "next"
    /\ pc' = "loop"
    /\ idx' = idx + 1
    /\ meta' = NoTag
    /\ lrc_query' = NoQuery
    /\ requests' = <<>>
    /\ replies' = <<>>
    /\ lrc_item' = None
    /\ lrc_items' = None
    /\ canidates' = <<>>
    /\ selected' = None
    /\ to_write' = <<>>
    /\ hadLrc' = None
    /\ late' = FALSE
    /\ outcome' = ""
    /\ UNCHANGED <<config, lrcFile, handle, queued>>

\* the walker has no more items: main returns
WalkEnd ==
    /\ pc = "loop"
    /\ idx = MaxFiles
    /\ pc' = "done"
    /\ UNCHANGED <<config, idx, meta, lrc_query, requests, replies, lrc_item,
                   lrc_items, canidates, selected, to_write, lrcFile, hadLrc,
                   handle, queued, late, outcome>>

Next ==
    \/ WalkError
    \/ NotAudio
    \/ SkipExisting
    \/ TagReadError
    \/ SendGet
    \/ OnGetResponse
    \/ OnSearchResponse
    \/ OnCreateResult
    \/ PollWriteAll
    \/ BlockingWrite
    \/ LateWrite
    \/ EndIteration
    \/ WalkEnd

Spec == Init /\ [][Next]_vars

TypeOK ==
    /\ pc \in {"loop", "get", "search", "write", "write_all", "next", "done",
             "panicked"}
    /\ idx \in 0..MaxFiles
    /\ Len(requests) <= 2


\* ================================================================ claims
\* what the claims speak about, for the file main is working on
Items == Unwrap(lrc_items)
SearchFound == IsSome(lrc_items) /\ Len(Items) > 0
QueryDuration == Unwrap(lrc_query.duration)
Filtering == FGt(config.tolerance, Fin(0))
WithinTolerance(item) == FLt(abs_delta(item, QueryDuration), config.tolerance)
\* the current item has handed no text to write_lrc_for_file and has no write
\* of its own open or queued; its .lrc file is as it was found, unless a
\* write of an earlier item with the same .lrc path reached it meanwhile
OwnWrites == {i \in 1..Len(queued) : queued[i].of = idx}
Untouched == late \/ lrcFile = hadLrc
NothingWritten ==
    to_write = <<>> /\ handle = None /\ OwnWrites = {} /\ Untouched
IsChunkOf(w, text) == w.data = Slice(text, w.at, BLen(w.data))
EndedNotFound == outcome = "NotFound" /\ pc = "next" /\ NothingWritten
HasParam(params, key) == \E i \in 1..Len(params) : params[i][1] = key
ParamOf(params, key) == {params[i][2] : i \in {j \in 1..Len(params) : params[j][1] = key}}
GetRequests == {requests[i] : i \in {j \in 1..Len(requests) : requests[j].endpoint = "get"}}
SearchRequests == {requests[i] : i \in {j \in 1..Len(requests) : requests[j].endpoint = "search"}}
IgnoresArtist == "artist" \in config.ignore \/ "artist_name" \in config.ignore
IgnoresAlbum == "album" \in config.ignore \/ "album_name" \in config.ignore

\* C1: when the search returned candidates, the query has a duration, the
\* tolerance is positive and no candidate is within the tolerance, the file
\* ends as NotFound: nothing is written and main goes on to the next file.
C1_EmptyFilterIsNotFound ==
    (/\ SearchFound
     /\ IsSome(lrc_query.duration)
     /\ Filtering
     /\ \A i \in 1..Len(Items) : ~WithinTolerance(Items[i]))
    => EndedNotFound

\* C2: when the candidate chosen from the search result has no synced
\* lyrics, the file ends as NotFound: nothing is written and main goes on.
C2_NoSyncedLyricsIsNotFound ==
    (/\ SearchFound
     /\ IsSome(selected)
     /\ ~IsSome(Unwrap(selected).syncedLyrics))
    => EndedNotFound

\* C3: failure isolation: whatever happened to the files, when main has
\* ended every item the walker yields has been processed.
C3_EveryFileProcessed ==
    pc \in {"done", "panicked"} => (pc = "done" /\ idx = MaxFiles)

\* C4: with a query duration, the selected candidate is one of the returned
\* candidates and none of the eligible candidates (within the tolerance when
\* the tolerance is positive, all of them otherwise) is closer than it is.
C4_SelectedIsClosest ==
    (SearchFound /\ IsSome(selected) /\ IsSome(lrc_query.duration))
    => LET sel == Unwrap(selected) IN
       /\ \E i \in 1..Len(Items) : Items[i] = sel
       /\ Filtering => WithinTolerance(sel)
       /\ \A i \in 1..Len(Items) :
             (Filtering => WithinTolerance(Items[i]))
             => ~FLt(abs_delta(Items[i], QueryDuration), abs_delta(sel, QueryDuration))

\* C4 witness: two candidates within a positive tolerance, the closer one
\* second in the response, and the closer one selected.
C4_Witness ==
    /\ SearchFound /\ IsSome(selected) /\ IsSome(lrc_query.duration)
    /\ Filtering
    /\ Len(Items) >= 2
    /\ WithinTolerance(Items[1])
    /\ Unwrap(selected) = Items[2]
    /\ FLt(abs_delta(Items[2], QueryDuration), abs_delta(Items[1], QueryDuration))

\* C5: every exact-get request carries track_name and artist_name (also when
\* the artist is the empty string), and carries album_name and duration
\* exactly when the query has them.
C5_GetCarriesArtist ==
    \A r \in GetRequests :
        /\ HasParam(r.params, "track_name")
        /\ HasParam(r.params, "artist_name")
        /\ HasParam(r.params, "album_name") <=> IsSome(r.query.album_name)
        /\ HasParam(r.params, "duration") <=> IsSome(r.query.duration)

\* C6: with a NaN delta among the candidates, main never ends in the panic of
\* the sort comparator.
C6_SortSurvivesNaN ==
    (/\ SearchFound
     /\ IsSome(lrc_query.duration)
     /\ \E i \in 1..Len(Items) : abs_delta(Items[i], QueryDuration).k = "nan")
    => outcome # "PanicSort"

\* C7: with a positive tolerance and a query duration, the selected candidate
\* never has a delta equal to the tolerance.
C7_BoundaryExcluded ==
    (SearchFound /\ IsSome(selected) /\ IsSome(lrc_query.duration) /\ Filtering)
    => abs_delta(Unwrap(selected), QueryDuration) # config.tolerance

\* C7 witness: the first candidate of the response is exactly at the
\* tolerance and another candidate is selected.
C7_Witness ==
    /\ SearchFound /\ IsSome(selected) /\ IsSome(lrc_query.duration) /\ Filtering
    /\ abs_delta(Items[1], QueryDuration) = config.tolerance
    /\ Unwrap(selected) # Items[1]

\* C8: without a query duration the selected candidate is the first element
\* of the response and the list is the response, whatever the tolerance.
C8_NoDurationTakesFirst ==
    (SearchFound /\ IsSome(selected) /\ ~IsSome(lrc_query.duration))
    => (Unwrap(selected) = Items[1] /\ canidates = Items)

\* C8 witness: "duration" is ignored, the tag has a duration, and the first
\* candidate of the response is selected although it is outside the positive
\* tolerance around the tag's duration and the second candidate is inside.
C8_Witness ==
    /\ SearchFound /\ IsSome(selected) /\ ~IsSome(lrc_query.duration)
    /\ "duration" \in config.ignore /\ IsSome(meta.duration)
    /\ Filtering
    /\ Len(Items) >= 2
    /\ ~FLt(abs_delta(Items[1], Unwrap(meta.duration)), config.tolerance)
    /\ FLt(abs_delta(Items[2], Unwrap(meta.duration)), config.tolerance)
    /\ Unwrap(selected) = Items[1]

\* C9: the query of the exact get has no duration when "duration" is ignored
\* and the tag's duration otherwise, no album when "album" or "album_name" is
\* ignored and the tag's album otherwise, and the tag's title as track_name;
\* no other token changes it.
C9_QueryConstruction ==
    \A r \in GetRequests :
        /\ r.query.duration = IF "duration" \in config.ignore THEN None ELSE meta.duration
        /\ r.query.album_name = IF IgnoresAlbum THEN None ELSE meta.album
        /\ r.query.track_name = IF IsSome(meta.title) THEN Unwrap(meta.title) ELSE ""

\* C9 witness: an exact get was sent for a tag with an album under the
\* ignore token "album".
C9_Witness ==
    /\ GetRequests # {}
    /\ "album" \in config.ignore
    /\ IsSome(meta.album)
    /\ \A r \in GetRequests : r.query.album_name = None /\ r.query.duration = meta.duration

\* C10: the query of the exact get always has the joined artists of the tag as
\* artist_name; the query of the search has it cleared exactly when "artist"
\* or "artist_name" is ignored.
C10_ArtistOnlyHiddenForSearch ==
    LET artist == IF IsSome(meta.artists) THEN join(Unwrap(meta.artists)) ELSE "" IN
    /\ \A r \in GetRequests : r.query.artist_name = artist
    /\ \A r \in SearchRequests :
          r.query.artist_name = IF IgnoresArtist THEN "" ELSE artist

\* C10 witness: the artist is ignored, the exact get was sent with the two
\* artists joined and the search with the empty artist.
C10_Witness ==
    /\ IgnoresArtist
    /\ \E g \in GetRequests : g.query.artist_name = "Band, Duo"
    /\ \E r \in SearchRequests : r.query.artist_name = ""


\* ------------------------------------------------------------ C11 .. C20
GetIndexes == {i \in 1..Len(requests) : requests[i].endpoint = "get"}
SearchIndexes == {i \in 1..Len(requests) : requests[i].endpoint = "search"}
SearchReplies == {replies[i] : i \in {j \in 1..Len(replies) : replies[j].endpoint = "search"}}
Eligible(item) == Filtering => WithinTolerance(item)
SameDelta(a, b) == abs_delta(a, QueryDuration) = abs_delta(b, QueryDuration)

\* C11: a search request never carries a duration; it carries the track name,
\* the artist exactly when the query's artist is not empty and the album
\* exactly when the query has one.
C11_SearchNeverSendsDuration ==
    \A r \in SearchRequests :
        /\ ~HasParam(r.params, "duration")
        /\ ParamOf(r.params, "track_name") = {r.query.track_name}
        /\ HasParam(r.params, "artist_name") <=> r.query.artist_name # ""
        /\ HasParam(r.params, "album_name") <=> IsSome(r.query.album_name)

\* C11 witness: a search was sent for a query that has a duration and whose
\* artist was hidden.
C11_Witness ==
    \E r \in SearchRequests :
        /\ IsSome(r.query.duration)
        /\ IsSome(meta.artists) /\ r.query.artist_name = ""
        /\ ~HasParam(r.params, "artist_name")
        /\ HasParam(r.params, "album_name")

\* C12: a search is sent only with --search and only as the second request
\* of a file whose exact get returned Ok(None); when the exact get returned
\* Ok(None) without --search, no search is sent and the file ends as NotFound
\* with nothing written.
C12_SearchOnlyAfterMiss ==
    /\ \A i \in SearchIndexes :
          /\ config.search
          /\ i = 2
          /\ requests[1].endpoint = "get"
          /\ Len(replies) >= 1
          /\ replies[1].endpoint = "get" /\ replies[1].result = "None"
    /\ (Len(replies) >= 1 /\ replies[1].result = "None" /\ ~config.search)
          => (SearchIndexes = {} /\ EndedNotFound)

\* C12 witness: the exact get answered 404 without --search and the file
\* ended as NotFound.
C12_Witness ==
    /\ ~config.search
    /\ Len(replies) = 1 /\ replies[1].status = 404 /\ replies[1].result = "None"
    /\ outcome = "NotFound"

\* C13: when the exact get found an item without synced lyrics, the file is
\* over with nothing written, no error and no search, also with --search.
C13_UnsyncedExactIsTerminal ==
    (IsSome(lrc_item) /\ ~IsSome(Unwrap(lrc_item).syncedLyrics))
    => /\ SearchIndexes = {}
       /\ NothingWritten
       /\ pc = "next"
       /\ outcome = "NothingToWrite"

\* C13 witness: with --search, the exact get found an item without synced
\* lyrics, and the file ended while a write of the item before, which has the
\* same .lrc path, reached the .lrc file.
C13_Witness ==
    /\ config.search
    /\ IsSome(lrc_item) /\ ~IsSome(Unwrap(lrc_item).syncedLyrics)
    /\ Len(requests) = 1
    /\ outcome = "NothingToWrite"
    /\ late /\ lrcFile # hadLrc

\* C14: for both calls, a 404 gives Ok(None), another status that is not a
\* success gives an error with that status, and a success whose body does not
\* parse gives an error.
C14_StatusMapping ==
    \A i \in 1..Len(replies) :
        LET p == replies[i] IN
        p.transport =>
           /\ p.status = 404 => (p.result = "None" /\ p.err = "")
           /\ (p.status # 404 /\ ~(p.status \in 200..299))
                 => (p.result = "Err" /\ p.err = "status" /\ p.err_status = p.status)
           /\ (p.status \in 200..299 /\ ~p.parses)
                 => (p.result = "Err" /\ p.err = "parse")

\* C14 witness: both calls of a file were answered 404.
C14_Witness ==
    /\ Len(replies) = 2
    /\ replies[1].endpoint = "get" /\ replies[1].status = 404
    /\ replies[2].endpoint = "search" /\ replies[2].status = 404
    /\ replies[2].result = "None"

\* C15: for one file at most one exact get and at most one search are sent,
\* and an error of a call ends the file: no request after it, nothing
\* written.
C15_NoRetry ==
    /\ Cardinality(GetIndexes) <= 1
    /\ Cardinality(SearchIndexes) <= 1
    /\ \A i \in 1..Len(replies) :
          replies[i].result = "Err"
          => /\ Len(requests) = i
             /\ NothingWritten
             /\ pc = "next"
             /\ outcome = (IF replies[i].endpoint = "get" THEN "GetError" ELSE "SearchError")

\* C15 witness: the search of a file failed after its exact get had missed,
\* and the file ended while a write of the item before, which has the same
\* .lrc path, reached the .lrc file.
C15_Witness ==
    /\ config.search
    /\ Len(replies) = 2 /\ replies[1].result = "None" /\ replies[2].result = "Err"
    /\ Len(requests) = 2
    /\ outcome = "SearchError"
    /\ late /\ lrcFile # hadLrc

\* C17: among the eligible candidates that are as close as the selected one,
\* the selected one comes first in the response, and candidates that are
\* equally close keep the order of the response in the ranked list.
C17_TiesKeepResponseOrder ==
    (SearchFound /\ IsSome(selected) /\ IsSome(lrc_query.duration))
    => /\ \A i \in 1..Len(Items) :
             (Eligible(Items[i]) /\ SameDelta(Items[i], Unwrap(selected)))
             => Unwrap(selected).id <= i
       /\ \A j, k \in 1..Len(canidates) :
             (j < k /\ SameDelta(canidates[j], canidates[k]))
             => canidates[j].id < canidates[k].id

\* C17 witness: the two first candidates of the response are equally close
\* and eligible, and the first one is selected.
C17_Witness ==
    /\ SearchFound /\ IsSome(selected) /\ IsSome(lrc_query.duration)
    /\ Len(Items) >= 2
    /\ SameDelta(Items[1], Items[2])
    /\ Eligible(Items[1])
    /\ Unwrap(selected) = Items[1]
    /\ Len(canidates) >= 2

\* C18: a search that returns Ok(None) or an empty list ends the file as
\* NotFound, with nothing written and no candidate read; a search that fails
\* ends the file with an error and main goes on.
C18_SearchMissIsNotFound ==
    \A p \in SearchReplies :
        /\ (p.result = "None" \/ (p.result = "Some" /\ Len(Items) = 0))
              => (EndedNotFound /\ selected = None /\ canidates = <<>>)
        /\ p.result = "Err"
              => (outcome = "SearchError" /\ pc = "next" /\ NothingWritten)

\* C18 witness: the search returned an empty list and the file ended as
\* NotFound, while a write of the item before, which has the same .lrc path,
\* reached the .lrc file.
C18_Witness ==
    /\ IsSome(lrc_items) /\ Len(Items) = 0
    /\ outcome = "NotFound"
    /\ late /\ lrcFile # hadLrc

\* C19: at most one text is handed to write_lrc_for_file per file; it is the
\* synced lyrics of the item of the exact get or of the selected candidate of
\* the search; every write of the file's own File carries bytes of that text
\* at their place in it; as long as no write of an earlier item reaches the
\* .lrc file, it changes only through that write, to hold the first bytes of
\* that text (none, some or all of them), and never for a file that ended
\* without a write.
C19_WriteSafety ==
    /\ Len(to_write) <= 1
    /\ to_write # <<>>
          => \/ IsSome(lrc_item) /\ Unwrap(lrc_item).syncedLyrics = Some(to_write[1])
             \/ /\ ~IsSome(lrc_item) /\ IsSome(selected)
                /\ \E i \in 1..Len(Items) : Items[i] = Unwrap(selected)
                /\ Unwrap(selected).syncedLyrics = Some(to_write[1])
    /\ IsSome(handle)
          => /\ to_write # <<>>
             /\ IsSome(Unwrap(handle).op)
                   => IsChunkOf(Unwrap(Unwrap(handle).op), to_write[1])
    /\ \A i \in OwnWrites : to_write # <<>> /\ IsChunkOf(queued[i], to_write[1])
    /\ (pc \notin {"loop", "done"} /\ ~late /\ lrcFile # hadLrc)
          => /\ to_write # <<>>
             /\ IsSome(lrcFile)
             /\ Unwrap(lrcFile) = Take(to_write[1], BLen(Unwrap(lrcFile)))
             /\ \/ pc = "write_all" /\ outcome = ""
                \/ pc = "next" /\ outcome \in {"Written", "WriteError"}
    /\ outcome \in {"NotFound", "GetError", "SearchError", "NothingToWrite",
                    "Skipped", "TagError", "NotAudio", "WalkError",
                    "PanicSort", "PanicIndex", "PanicUnwrap"}
          => NothingWritten

\* C19 witness: with --search, an item found the .lrc file as the item
\* before, which has the same .lrc path, left it; no write of that item came
\* late, and the file now holds the lyrics of the selected candidate, which
\* was the second of the response and has other lyrics than the first.
C19_Witness ==
    /\ config.search
    /\ outcome = "Written"
    /\ IsSome(selected) /\ Unwrap(selected).id = 2
    /\ IsSome(Items[1].syncedLyrics)
    /\ Items[1].syncedLyrics # Unwrap(selected).syncedLyrics
    /\ lrcFile = Unwrap(selected).syncedLyrics
    /\ hadLrc \notin ExistingLrc
    /\ ~late

\* C20: a file that has a .lrc file is left alone without --force: no tag is
\* read, no request is sent and the .lrc file is unchanged; with --force no
\* file is skipped.
C20_ExistingLrcSkipped ==
    /\ (IsSome(hadLrc) /\ ~config.force)
          => /\ requests = <<>> /\ replies = <<>>
             /\ meta = NoTag
             /\ outcome \in {"Skipped", "NotAudio"}
    /\ outcome = "Skipped" => lrcFile = hadLrc
    /\ config.force => outcome # "Skipped"

====
